---- MODULE Spec2Model ----
(***************************************************************************)
(* A model of src/app.py: the ISO 8583 text codec (Iso8583Message), the    *)
(* payment pipeline (process_payment_logic, initiate_payout,               *)
(* log_transaction_to_firestore) and the web handler that calls it         *)
(* (handle_web_payment, with the session routes that gate it).             *)
(*                                                                         *)
(* Python values are tagged records [t, v]; a str or bytes value holds its *)
(* characters as a sequence of one-character strings, so that split() is   *)
(* computed character by character as the code computes it.                *)
(***************************************************************************)
EXTENDS Integers, Sequences, FiniteSets, TLC

VARIABLES
    \* --- codec ---
    cpc,        \* position of the codec run: decode/encode, decoded, packed, unpacked
    input,      \* the message_str handed to Iso8583Message(message_str)
    packArgs,   \* the (mti, data_elements) handed to pack
    msg,        \* the Iso8583Message object: [mti, data_elements]
    wire,       \* what pack returned
    via,        \* how the packed wire was handed back to unpack
    \* --- web channel and pipeline ---
    db,         \* whether the module-level Firestore client db is set (not None)
    session,    \* the keys of the client's Flask session
    ledger,     \* Firestore: user id -> the documents of its transactions collection
    pc,         \* per request: idle, process, decide, payout, log, respond, done
    body,       \* per request: what request.json gives
    passed,     \* per request: the all([...]) check of line 100 passed
    is_approved,    \* per request: random.choice([True, False]), once taken
    payout_result,  \* per request: what initiate_payout returned
    payouts,    \* per request: how many times initiate_payout was called
    handed,     \* per request: the document handed to transactions_ref.add
    logged,     \* per request: none, skipped, stored, failed (the add raised)
    reply       \* per request: the HTTP reply [code, json]

codecVars == <<cpc, input, packArgs, msg, wire, via>>
webVars == <<db, session, ledger, pc, body, passed, is_approved,
             payout_result, payouts, handed, logged, reply>>
vars == <<cpc, input, packArgs, msg, wire, via, db, session, ledger, pc, body,
          passed, is_approved, payout_result, payouts, handed, logged, reply>>

(***************************************************************************)
(* Python values                                                           *)
(***************************************************************************)
PyNone == [t |-> "none", v |-> <<>>]
Str(s) == [t |-> "str", v |-> s]
Bytes(s) == [t |-> "bytes", v |-> s]

Num(n) == [t |-> "int", v |-> n]
\* A str whose characters the code never looks at is held as one chunk.
Text(s) == [t |-> "str", v |-> <<s>>]
EmptyStr == [t |-> "str", v |-> <<>>]
Bool(b) == [t |-> "bool", v |-> b]

\* bool(x): None, 0 and the empty str/bytes are falsy.
Truthy(x) ==
    CASE x.t = "none" -> FALSE
      [] x.t = "int" -> x.v # 0
      [] x.t = "bool" -> x.v
      [] OTHER -> x.v # <<>>

\* The literals of the wire format.
MTI == <<"M", "T", "I">>
ERROR == <<"E", "R", "R", "O", "R">>
Colon == ":"
Pipe == "|"
Comma == ","

(***************************************************************************)
(* str.split(sep) with a one-character separator: every occurrence splits, *)
(* and a string without the separator is returned whole (also when empty). *)
(***************************************************************************)
RECURSIVE Split(_, _)
Split(s, sep) ==
    IF \A i \in 1..Len(s) : s[i] # sep
    THEN <<s>>
    ELSE LET i == CHOOSE k \in 1..Len(s) :
                      s[k] = sep /\ \A j \in 1..(k - 1) : s[j] # sep
         IN <<SubSeq(s, 1, i - 1)>> \o Split(SubSeq(s, i + 1, Len(s)), sep)

\* sep.join(parts)
RECURSIVE Join(_, _)
Join(parts, sep) ==
    IF parts = <<>> THEN <<>>
    ELSE IF Len(parts) = 1 THEN parts[1]
    ELSE parts[1] \o <<sep>> \o Join(Tail(parts), sep)

(***************************************************************************)
(* A dict is the sequence of its <<key, value>> items in insertion order.  *)
(* d[key] = value replaces the value of a key already present, in place,   *)
(* and appends a new key at the end.                                       *)
(***************************************************************************)
DictSet(d, key, value) ==
    IF \E i \in 1..Len(d) : d[i][1] = key
    THEN [i \in 1..Len(d) |-> IF d[i][1] = key THEN <<key, value>> ELSE d[i]]
    ELSE Append(d, <<key, value>>)

\* The object __init__ leaves before any unpack: mti None, no data elements.
NewMessage == [mti |-> PyNone, data_elements |-> <<>>]

\* Mutant of StoreElements: only the first element is stored.
StoreElementsFirstOnly(d, elements) ==
    IF elements = <<>> THEN [data_elements |-> d, raised |-> FALSE]
    ELSE LET kv == Split(Head(elements), Colon)
         IN IF Len(kv) # 2
            THEN [data_elements |-> d, raised |-> TRUE]
            ELSE [data_elements |-> DictSet(d, kv[1], kv[2]), raised |-> FALSE]

(***************************************************************************)
(* The for loop of unpack over the elements of the data segment: each      *)
(* element is split on ':' and must give exactly two parts (key, value =   *)
(* ...); the first element that does not raises ValueError, and the items  *)
(* stored before it stay in data_elements.                                 *)
(***************************************************************************)
RECURSIVE StoreElements(_, _)
StoreElements(d, elements) ==
    IF elements = <<>> THEN [data_elements |-> d, raised |-> FALSE]
    ELSE LET kv == Split(Head(elements), Colon)
         IN IF Len(kv) # 2
            THEN [data_elements |-> d, raised |-> TRUE]
            ELSE StoreElements(DictSet(d, kv[1], kv[2]), Tail(elements))

(***************************************************************************)
(* Iso8583Message.unpack(message_str) on the object self. Every exception  *)
(* is caught and turns into mti = 'ERROR'; data_elements is not reset.     *)
(***************************************************************************)
unpack(self, message_str) ==
    IF message_str.t # "str"
    THEN \* bytes.split('|') raises TypeError, None.split AttributeError
         [self EXCEPT !.mti = Str(ERROR)]
    ELSE LET parts == Split(message_str.v, Pipe)
             head == Split(parts[1], Colon)
         IN IF Len(head) < 2
            THEN \* parts[0].split(':')[1] raises IndexError
                 [self EXCEPT !.mti = Str(ERROR)]
            ELSE IF Len(parts) < 2
            THEN \* parts[1] raises IndexError, after self.mti was assigned
                 [self EXCEPT !.mti = Str(ERROR)]
            ELSE LET stored == StoreElements(self.data_elements,
                                             Split(parts[2], Comma))
                 IN [mti |-> IF stored.raised THEN Str(ERROR) ELSE Str(head[2]),
                     data_elements |-> stored.data_elements]

\* Iso8583Message(message_str): unpack runs only for a truthy message_str.
Iso8583Message(message_str) ==
    IF Truthy(message_str) THEN unpack(NewMessage, message_str) ELSE NewMessage

(***************************************************************************)
(* Iso8583Message.pack(mti, data_elements): the text "MTI:<mti>|" followed *)
(* by the "key:value" items joined by ',', encoded to ASCII bytes.         *)
(***************************************************************************)
PackText(mti, data_elements) ==
    MTI \o <<Colon>> \o mti \o <<Pipe>>
        \o Join([i \in 1..Len(data_elements) |->
                    data_elements[i][1] \o <<Colon>> \o data_elements[i][2]],
                Comma)
pack(mti, data_elements) == Bytes(PackText(mti, data_elements))

(***************************************************************************)
(* The web channel and the payment pipeline.                               *)
(***************************************************************************)
NumRequests == 2
Requests == 1..NumRequests

\* A key that a dict does not hold.
Absent == [t |-> "absent", v |-> <<>>]
\* dict.get(key) and dict.get(key, default)
Get(d, key) == IF d[key] = Absent THEN PyNone ELSE d[key]
GetOr(d, key, default) == IF d[key] = Absent THEN default ELSE d[key]

Dict(d) == [t |-> "dict", v |-> d]
\* request.json raises (the body is not JSON)
BadJson == [t |-> "badjson", v |-> <<>>]

DefaultUser == Text("virtual-terminal-1")
UserIds == {DefaultUser, Text("u1")}

Payload(amount, currency, cardNumber, protocol, userId) ==
    [amount |-> amount, currency |-> currency, cardNumber |-> cardNumber,
     protocol |-> protocol, userId |-> userId]
Full == Payload(Num(10), Text("USD"), Text("4111111111111111"), Text("VISA"),
                Absent)

\* The JSON payloads of the runs: complete ones (with and without a userId,
\* with a negative amount), and ones with fields missing or falsy.
Payloads ==
    {Full,
     [Full EXCEPT !.userId = Text("u1")],
     [Full EXCEPT !.amount = Num(-5)],
     [Full EXCEPT !.amount = Num(0)],
     [Full EXCEPT !.amount = Absent],
     [Full EXCEPT !.currency = Absent],
     [Full EXCEPT !.cardNumber = Absent],
     [Full EXCEPT !.protocol = Absent],
     [Full EXCEPT !.amount = Absent, !.currency = Absent]}
Bodies == {Dict(d) : d \in Payloads} \cup {PyNone, BadJson}

\* f"0x{os.urandom(32).hex()}": 32 fresh random bytes, so every call has a
\* hash of its own.
FreshHash(r) == [t |-> "str", v |-> <<"0x", r>>]
PayoutSuccess(h) == [status |-> "success", hash |-> h]
PayoutFailure == [status |-> "failure", hash |-> PyNone]
NoPayout == [status |-> "none", hash |-> PyNone]

SERVER_TIMESTAMP == "SERVER_TIMESTAMP"
NoDocument == [t |-> "none"]

\* The state in which no request has arrived.
WebIdle ==
    /\ session = {}
    /\ ledger = [u \in UserIds |-> <<>>]
    /\ pc = [r \in Requests |-> "idle"]
    /\ body = [r \in Requests |-> PyNone]
    /\ passed = [r \in Requests |-> FALSE]
    /\ is_approved = [r \in Requests |-> PyNone]
    /\ payout_result = [r \in Requests |-> NoPayout]
    /\ payouts = [r \in Requests |-> 0]
    /\ handed = [r \in Requests |-> NoDocument]
    /\ logged = [r \in Requests |-> "none"]
    /\ reply = [r \in Requests |-> [code |-> 0]]

(***************************************************************************)
(* The inputs of the codec runs.                                           *)
(***************************************************************************)
MaxFields == 2

Types == {<<"0", "2", "0", "0">>, ERROR, <<>>}
Codes == {<<"3", "9">>, <<"0", "2">>, <<"4">>}
PAN == <<"4", "1", "1", "1", "1", "1", "1", "1",
         "1", "1", "1", "1", "1", "1", "1", "1">>
Values == {<<"0", "0">>, PAN, <<>>}

SeqsUpTo(S, n) == UNION {[1..k -> S] : k \in 0..n}

\* Ordered field maps with distinct codes, as pack receives them.
FieldMaps ==
    {f \in SeqsUpTo(Codes \X Values, MaxFields) :
        \A i, j \in 1..Len(f) : i # j => f[i][1] # f[j][1]}

\* The elements of a data segment: code:value pairs, pairs whose value holds
\* a ':', bare codes, the empty element and a lone ':'.
PairElements == {c \o <<Colon>> \o v : c \in Codes, v \in Values}
Elements ==
    PairElements
        \cup {c \o <<Colon, "0", Colon, "0">> : c \in Codes}
        \cup Codes \cup {<<>>, <<Colon>>}

\* First segments: "MTI:<type>", "MTI<type>" (no ':') and the empty one.
Heads ==
    {MTI \o <<Colon>> \o ty : ty \in Types} \cup {MTI \o ty : ty \in Types}
        \cup {<<>>}
\* What may follow the data segment: nothing, or a further '|' segment.
Tails == {<<>>, <<Pipe, "3", "9", Colon, "0", "0">>}

Texts ==
    Heads \cup
    {h \o <<Pipe>> \o Join(es, Comma) \o tl :
        h \in Heads, es \in SeqsUpTo(Elements, MaxFields), tl \in Tails}

Inputs == {Str(s) : s \in Texts} \cup {Bytes(s) : s \in Heads} \cup {PyNone}

NoArgs == [mti |-> <<>>, data_elements |-> <<>>]
PackArgs == [mti : Types, data_elements : FieldMaps]

CodecInit ==
    /\ WebIdle
    /\ db = FALSE
    /\ msg = NewMessage
    /\ wire = PyNone
    /\ via = "none"
    /\ \/ cpc = "decode" /\ input \in Inputs /\ packArgs = NoArgs
       \/ cpc = "encode" /\ input = PyNone /\ packArgs \in PackArgs

\* message = Iso8583Message(input)
Construct ==
    /\ cpc = "decode"
    /\ msg' = Iso8583Message(input)
    /\ cpc' = "decoded"
    /\ UNCHANGED <<input, packArgs, wire, via>>
    /\ UNCHANGED webVars

\* wire = message.pack(mti, data_elements), which also sets the object's
\* mti and data_elements to its arguments.
Pack ==
    /\ cpc = "encode"
    /\ msg' = [mti |-> Str(packArgs.mti),
               data_elements |-> packArgs.data_elements]
    /\ wire' = pack(packArgs.mti, packArgs.data_elements)
    /\ cpc' = "packed"
    /\ UNCHANGED <<input, packArgs, via>>
    /\ UNCHANGED webVars

\* Iso8583Message(wire): the bytes pack returned, handed to unpack as they are.
UnpackWire ==
    /\ cpc = "packed"
    /\ msg' = Iso8583Message(wire)
    /\ via' = "bytes"
    /\ cpc' = "unpacked"
    /\ UNCHANGED <<input, packArgs, wire>>
    /\ UNCHANGED webVars

\* Iso8583Message(wire.decode('ascii')): the channel turns the bytes it
\* received back into text before decoding them.
UnpackWireText ==
    /\ cpc = "packed"
    /\ msg' = Iso8583Message(Str(wire.v))
    /\ via' = "text"
    /\ cpc' = "unpacked"
    /\ UNCHANGED <<input, packArgs, wire>>
    /\ UNCHANGED webVars

CodecNext == Construct \/ Pack \/ UnpackWire \/ UnpackWireText

CodecSpec == CodecInit /\ [][CodecNext]_vars

(***************************************************************************)
(* The session routes. flash() keeps its messages under a session key of   *)
(* their own that no route reads; it is left out.                          *)
(***************************************************************************)
Usernames == {"admin", "guest"}
Passwords == {"password", "letmein"}

\* POST /login
login_page(username, password) ==
    /\ session' = IF username = "admin" /\ password = "password"
                  THEN session \cup {"logged_in", "_permanent"}
                  ELSE session
    /\ UNCHANGED <<db, ledger, pc, body, passed, is_approved, payout_result,
                   payouts, handed, logged, reply>>
    /\ UNCHANGED codecVars

\* GET /logout
logout ==
    /\ session' = {}
    /\ UNCHANGED <<db, ledger, pc, body, passed, is_approved, payout_result,
                   payouts, handed, logged, reply>>
    /\ UNCHANGED codecVars

(***************************************************************************)
(* The protected pages. Each answers from the session alone and changes    *)
(* nothing the pipeline holds: a redirect to the login page without        *)
(* 'logged_in', its template otherwise.                                    *)
(***************************************************************************)
Redirect(endpoint) == [code |-> 302, location |-> endpoint]
Render(template) == [code |-> 200, template |-> template]

\* GET /card
card_page ==
    IF "logged_in" \notin session
    THEN Redirect("login_page") ELSE Render("card.html")
\* GET /processing
processing_page ==
    IF "logged_in" \notin session
    THEN Redirect("login_page") ELSE Render("processing.html")
\* GET /success
success_page ==
    IF "logged_in" \notin session
    THEN Redirect("login_page") ELSE Render("success.html")
\* GET /rejected
rejected_page ==
    IF "logged_in" \notin session
    THEN Redirect("login_page") ELSE Render("rejected.html")

(***************************************************************************)
(* The replies.                                                            *)
(***************************************************************************)
NotAuthenticated ==
    [code |-> 401,
     json |-> [status |-> "error", message |-> "User not authenticated."]]
InternalServerError ==
    [code |-> 500,
     json |-> [status |-> "declined", response_code |-> "99",
               message |-> "Internal Server Error"]]
\* The dict returned at line 101; it holds no blockchain_hash key.
Rejected ==
    [status |-> "declined", response_code |-> "99",
     message |-> "Missing transaction data."]

\* Mutant of AllPresent: the check leaves protocol out.
AllPresentForgetsProtocol(data) ==
    /\ Truthy(Get(data, "amount"))
    /\ Truthy(Get(data, "currency"))
    /\ Truthy(Get(data, "cardNumber"))

\* all([amount, currency, card_number, protocol])
AllPresent(data) ==
    /\ Truthy(Get(data, "amount"))
    /\ Truthy(Get(data, "currency"))
    /\ Truthy(Get(data, "cardNumber"))
    /\ Truthy(Get(data, "protocol"))

\* Mutant of Outcome: a failed payout turns the approval into a decline.
OutcomeFailureDeclines(approved, payout) ==
    IF approved /\ payout.status = "success"
    THEN [status |-> "approved", response_code |-> "00",
          message |-> "Transaction approved and payout initiated.",
          blockchain_hash |-> payout.hash]
    ELSE [status |-> "declined", response_code |-> "51",
          message |-> "Transaction declined by internal rules.",
          blockchain_hash |-> PyNone]

\* Mutant of Outcome: the decline carries the code of the failed payout.
OutcomeDeclinedAs05(approved, payout) ==
    IF approved
    THEN IF payout.status = "success"
         THEN [status |-> "approved", response_code |-> "00",
               message |-> "Transaction approved and payout initiated.",
               blockchain_hash |-> payout.hash]
         ELSE [status |-> "approved", response_code |-> "05",
               message |-> "Transaction approved, but payout failed.",
               blockchain_hash |-> PyNone]
    ELSE [status |-> "declined", response_code |-> "05",
          message |-> "Transaction declined by internal rules.",
          blockchain_hash |-> PyNone]

\* The dict of lines 121-126, built again at lines 128-133.
Outcome(approved, payout) ==
    IF approved
    THEN IF payout.status = "success"
         THEN [status |-> "approved", response_code |-> "00",
               message |-> "Transaction approved and payout initiated.",
               blockchain_hash |-> payout.hash]
         ELSE [status |-> "approved", response_code |-> "05",
               message |-> "Transaction approved, but payout failed.",
               blockchain_hash |-> PyNone]
    ELSE [status |-> "declined", response_code |-> "51",
          message |-> "Transaction declined by internal rules.",
          blockchain_hash |-> PyNone]

\* The document log_transaction_to_firestore builds for transactions_ref.add.
Document(data, result) ==
    [amount |-> Get(data, "amount"),
     currency |-> Get(data, "currency"),
     protocol |-> Get(data, "protocol"),
     cardNumber |-> Get(data, "cardNumber"),
     status |-> result.status,
     response_code |-> result.response_code,
     blockchain_hash |-> result.blockchain_hash,
     timestamp |-> SERVER_TIMESTAMP]

\* Mutant of handle_web_payment: the handler without its session check.
handle_web_paymentUngated(r, b) ==
    /\ pc[r] = "idle"
    /\ IF b = BadJson
       THEN /\ reply' = [reply EXCEPT ![r] = InternalServerError]
            /\ pc' = [pc EXCEPT ![r] = "done"]
            /\ UNCHANGED body
       ELSE /\ body' = [body EXCEPT ![r] = b]
            /\ pc' = [pc EXCEPT ![r] = "process"]
            /\ UNCHANGED reply
    /\ UNCHANGED <<db, session, ledger, passed, is_approved, payout_result,
                   payouts, handed, logged>>
    /\ UNCHANGED codecVars

(***************************************************************************)
(* POST /api/process_transaction, up to the call of process_payment_logic: *)
(* the session check, then data = request.json, whose exception the        *)
(* handler's except turns into the 500 reply.                              *)
(***************************************************************************)
handle_web_payment(r, b) ==
    /\ pc[r] = "idle"
    /\ IF "logged_in" \notin session
       THEN /\ reply' = [reply EXCEPT ![r] = NotAuthenticated]
            /\ pc' = [pc EXCEPT ![r] = "done"]
            /\ UNCHANGED body
       ELSE IF b = BadJson
       THEN /\ reply' = [reply EXCEPT ![r] = InternalServerError]
            /\ pc' = [pc EXCEPT ![r] = "done"]
            /\ UNCHANGED body
       ELSE /\ body' = [body EXCEPT ![r] = b]
            /\ pc' = [pc EXCEPT ![r] = "process"]
            /\ UNCHANGED reply
    /\ UNCHANGED <<db, session, ledger, passed, is_approved, payout_result,
                   payouts, handed, logged>>
    /\ UNCHANGED codecVars

\* Mutant of process_payment_logic: the AttributeError of data.get leaves the
\* handler uncaught and the server answers with its own error page.
process_payment_logicPropagates(r) ==
    /\ pc[r] = "process"
    /\ IF body[r].t # "dict"
       THEN /\ reply' = [reply EXCEPT ![r] =
                            [code |-> 500, html |-> "Internal Server Error"]]
            /\ pc' = [pc EXCEPT ![r] = "done"]
            /\ UNCHANGED passed
       ELSE IF ~AllPresent(body[r].v)
       THEN /\ reply' = [reply EXCEPT ![r] = [code |-> 200, json |-> Rejected]]
            /\ pc' = [pc EXCEPT ![r] = "done"]
            /\ UNCHANGED passed
       ELSE /\ passed' = [passed EXCEPT ![r] = TRUE]
            /\ pc' = [pc EXCEPT ![r] = "decide"]
            /\ UNCHANGED reply
    /\ UNCHANGED <<db, session, ledger, body, is_approved, payout_result,
                   payouts, handed, logged>>
    /\ UNCHANGED codecVars

(***************************************************************************)
(* process_payment_logic, lines 94-101: the data.get calls (AttributeError *)
(* on a body that is no dict, caught by the handler) and the presence      *)
(* check, which returns the rejection at once.                             *)
(***************************************************************************)
process_payment_logic(r) ==
    /\ pc[r] = "process"
    /\ IF body[r].t # "dict"
       THEN /\ reply' = [reply EXCEPT ![r] = InternalServerError]
            /\ pc' = [pc EXCEPT ![r] = "done"]
            /\ UNCHANGED passed
       ELSE IF ~AllPresent(body[r].v)
       THEN /\ reply' = [reply EXCEPT ![r] = [code |-> 200, json |-> Rejected]]
            /\ pc' = [pc EXCEPT ![r] = "done"]
            /\ UNCHANGED passed
       ELSE /\ passed' = [passed EXCEPT ![r] = TRUE]
            /\ pc' = [pc EXCEPT ![r] = "decide"]
            /\ UNCHANGED reply
    /\ UNCHANGED <<db, session, ledger, body, is_approved, payout_result,
                   payouts, handed, logged>>
    /\ UNCHANGED codecVars

\* Mutant of decide: the decision is kept in one place that all requests
\* share.
decideShared(r) ==
    /\ pc[r] = "decide"
    /\ \E choice \in BOOLEAN :
        /\ is_approved' = [q \in Requests |-> Bool(choice)]
        /\ pc' = [pc EXCEPT ![r] = IF choice THEN "payout" ELSE "log"]
    /\ UNCHANGED <<db, session, ledger, body, passed, payout_result, payouts,
                   handed, logged, reply>>
    /\ UNCHANGED codecVars

\* Mutant of decide: an approved request goes on to the ledger without its
\* payout.
decideSkipsPayout(r) ==
    /\ pc[r] = "decide"
    /\ \E choice \in BOOLEAN :
        /\ is_approved' = [is_approved EXCEPT ![r] = Bool(choice)]
        /\ pc' = [pc EXCEPT ![r] = "log"]
    /\ UNCHANGED <<db, session, ledger, body, passed, payout_result, payouts,
                   handed, logged, reply>>
    /\ UNCHANGED codecVars

\* Mutant of decide: the payout is initiated whatever the decision.
decidePaysOutAnyway(r) ==
    /\ pc[r] = "decide"
    /\ \E choice \in BOOLEAN :
        /\ is_approved' = [is_approved EXCEPT ![r] = Bool(choice)]
        /\ pc' = [pc EXCEPT ![r] = "payout"]
    /\ UNCHANGED <<db, session, ledger, body, passed, payout_result, payouts,
                   handed, logged, reply>>
    /\ UNCHANGED codecVars

\* is_approved = random.choice([True, False])
decide(r) ==
    /\ pc[r] = "decide"
    /\ \E choice \in BOOLEAN :
        /\ is_approved' = [is_approved EXCEPT ![r] = Bool(choice)]
        /\ pc' = [pc EXCEPT ![r] = IF choice THEN "payout" ELSE "log"]
    /\ UNCHANGED <<db, session, ledger, body, passed, payout_result, payouts,
                   handed, logged, reply>>
    /\ UNCHANGED codecVars

\* Mutant of initiate_payout: the failure is not caught and reaches the
\* handler's except.
initiate_payoutRaises(r) ==
    /\ pc[r] = "payout"
    /\ payouts' = [payouts EXCEPT ![r] = @ + 1]
    /\ \/ /\ payout_result' =
                [payout_result EXCEPT ![r] = PayoutSuccess(FreshHash(r))]
          /\ pc' = [pc EXCEPT ![r] = "log"]
          /\ UNCHANGED reply
       \/ /\ reply' = [reply EXCEPT ![r] = InternalServerError]
          /\ pc' = [pc EXCEPT ![r] = "done"]
          /\ UNCHANGED payout_result
    /\ UNCHANGED <<db, session, ledger, body, passed, is_approved, handed,
                   logged>>
    /\ UNCHANGED codecVars

(***************************************************************************)
(* initiate_payout, called at line 108: a fresh hash and "success", or     *)
(* "failure" with no hash when the body of its try raises.                 *)
(***************************************************************************)
initiate_payout(r) ==
    /\ pc[r] = "payout"
    /\ \E result \in {PayoutSuccess(FreshHash(r)), PayoutFailure} :
        payout_result' = [payout_result EXCEPT ![r] = result]
    /\ payouts' = [payouts EXCEPT ![r] = @ + 1]
    /\ pc' = [pc EXCEPT ![r] = "log"]
    /\ UNCHANGED <<db, session, ledger, body, passed, is_approved, handed,
                   logged, reply>>
    /\ UNCHANGED codecVars

\* Mutant of log_transaction_to_firestore: every document goes to the
\* transactions of the default identity.
log_transaction_to_firestoreDefaultUser(r) ==
    /\ pc[r] = "log"
    /\ LET data == body[r].v
           user_id == GetOr(data, "userId", DefaultUser)
           result == Outcome(is_approved[r].v, payout_result[r])
           document == Document(data, result)
       IN IF ~db \/ ~Truthy(user_id)
          THEN /\ logged' = [logged EXCEPT ![r] = "skipped"]
               /\ UNCHANGED <<ledger, handed>>
          ELSE /\ handed' = [handed EXCEPT ![r] = document]
               /\ \/ /\ ledger' = [ledger EXCEPT ![DefaultUser] =
                                      Append(@, document)]
                     /\ logged' = [logged EXCEPT ![r] = "stored"]
                  \/ /\ logged' = [logged EXCEPT ![r] = "failed"]
                     /\ UNCHANGED ledger
    /\ pc' = [pc EXCEPT ![r] = "respond"]
    /\ UNCHANGED <<db, session, body, passed, is_approved, payout_result,
                   payouts, reply>>
    /\ UNCHANGED codecVars

\* Mutant of log_transaction_to_firestore: the document is added twice.
log_transaction_to_firestoreTwice(r) ==
    /\ pc[r] = "log"
    /\ LET data == body[r].v
           user_id == GetOr(data, "userId", DefaultUser)
           result == Outcome(is_approved[r].v, payout_result[r])
           document == Document(data, result)
       IN IF ~db \/ ~Truthy(user_id)
          THEN /\ logged' = [logged EXCEPT ![r] = "skipped"]
               /\ UNCHANGED <<ledger, handed>>
          ELSE /\ handed' = [handed EXCEPT ![r] = document]
               /\ \/ /\ ledger' = [ledger EXCEPT ![user_id] =
                                      Append(Append(@, document), document)]
                     /\ logged' = [logged EXCEPT ![r] = "stored"]
                  \/ /\ logged' = [logged EXCEPT ![r] = "failed"]
                     /\ UNCHANGED ledger
    /\ pc' = [pc EXCEPT ![r] = "respond"]
    /\ UNCHANGED <<db, session, body, passed, is_approved, payout_result,
                   payouts, reply>>
    /\ UNCHANGED codecVars

\* Mutant of log_transaction_to_firestore: the exception of the add is not
\* caught and reaches the handler's except.
log_transaction_to_firestoreRaises(r) ==
    /\ pc[r] = "log"
    /\ LET data == body[r].v
           user_id == GetOr(data, "userId", DefaultUser)
           result == Outcome(is_approved[r].v, payout_result[r])
           document == Document(data, result)
       IN IF ~db \/ ~Truthy(user_id)
          THEN /\ logged' = [logged EXCEPT ![r] = "skipped"]
               /\ pc' = [pc EXCEPT ![r] = "respond"]
               /\ UNCHANGED <<ledger, handed, reply>>
          ELSE /\ handed' = [handed EXCEPT ![r] = document]
               /\ \/ /\ ledger' = [ledger EXCEPT ![user_id] = Append(@, document)]
                     /\ logged' = [logged EXCEPT ![r] = "stored"]
                     /\ pc' = [pc EXCEPT ![r] = "respond"]
                     /\ UNCHANGED reply
                  \/ /\ logged' = [logged EXCEPT ![r] = "failed"]
                     /\ reply' = [reply EXCEPT ![r] = InternalServerError]
                     /\ pc' = [pc EXCEPT ![r] = "done"]
                     /\ UNCHANGED ledger
    /\ UNCHANGED <<db, session, body, passed, is_approved, payout_result,
                   payouts>>
    /\ UNCHANGED codecVars

(***************************************************************************)
(* log_transaction_to_firestore, called at line 121: nothing is written    *)
(* without db or with a falsy user id; otherwise the document is added to  *)
(* the user's transactions, or the add raises and the except logs it.      *)
(***************************************************************************)
log_transaction_to_firestore(r) ==
    /\ pc[r] = "log"
    /\ LET data == body[r].v
           user_id == GetOr(data, "userId", DefaultUser)
           result == Outcome(is_approved[r].v, payout_result[r])
           document == Document(data, result)
       IN IF ~db \/ ~Truthy(user_id)
          THEN /\ logged' = [logged EXCEPT ![r] = "skipped"]
               /\ UNCHANGED <<ledger, handed>>
          ELSE /\ handed' = [handed EXCEPT ![r] = document]
               /\ \/ /\ ledger' = [ledger EXCEPT ![user_id] = Append(@, document)]
                     /\ logged' = [logged EXCEPT ![r] = "stored"]
                  \/ /\ logged' = [logged EXCEPT ![r] = "failed"]
                     /\ UNCHANGED ledger
    /\ pc' = [pc EXCEPT ![r] = "respond"]
    /\ UNCHANGED <<db, session, body, passed, is_approved, payout_result,
                   payouts, reply>>
    /\ UNCHANGED codecVars

\* return {...} at lines 128-133 and jsonify(result) at line 239
respond(r) ==
    /\ pc[r] = "respond"
    /\ reply' = [reply EXCEPT ![r] =
                    [code |-> 200,
                     json |-> Outcome(is_approved[r].v, payout_result[r])]]
    /\ pc' = [pc EXCEPT ![r] = "done"]
    /\ UNCHANGED <<db, session, ledger, body, passed, is_approved,
                   payout_result, payouts, handed, logged>>
    /\ UNCHANGED codecVars

CodecOff ==
    /\ cpc = "off"
    /\ input = PyNone
    /\ packArgs = NoArgs
    /\ msg = NewMessage
    /\ wire = PyNone
    /\ via = "none"

\* db is set at import when a Firebase configuration is given and the SDK
\* initializes, and stays None otherwise.
Init == WebIdle /\ db \in BOOLEAN /\ CodecOff

Next ==
    \/ \E username \in Usernames, password \in Passwords :
            login_page(username, password)
    \/ logout
    \/ \E r \in Requests, b \in Bodies : handle_web_payment(r, b)
    \/ \E r \in Requests : process_payment_logic(r)
    \/ \E r \in Requests : decide(r)
    \/ \E r \in Requests : initiate_payout(r)
    \/ \E r \in Requests : log_transaction_to_firestore(r)
    \/ \E r \in Requests : respond(r)

Spec == Init /\ [][Next]_vars

\* The steps of one request after the handler accepted it; the position pc[r]
\* enables one of them at a time.
Run(r) ==
    \/ process_payment_logic(r)
    \/ decide(r)
    \/ initiate_payout(r)
    \/ log_transaction_to_firestore(r)
    \/ respond(r)

\* The server runs the handler of every request it accepted to its end.
Fairness == \A r \in Requests : WF_vars(Run(r))

FairSpec == Init /\ [][Next]_vars /\ Fairness

(***************************************************************************)
(* Properties of the pipeline.                                             *)
(***************************************************************************)
Done(r) == pc[r] = "done"
\* result.get('blockchain_hash')
HashOf(json) ==
    IF "blockchain_hash" \in DOMAIN json THEN json.blockchain_hash ELSE PyNone
Approved(r) == is_approved[r] = Bool(TRUE)
Declined(r) == is_approved[r] = Bool(FALSE)
RequiredKeys == {"amount", "currency", "cardNumber", "protocol"}
\* A JSON object that lacks one of the four required keys.
MissingField(b) == b.t = "dict" /\ \E k \in RequiredKeys : b.v[k] = Absent

\* C1: initiate_payout is called only for a request that passed validation
\* and whose decision is approve, and at most once for a request; a declined
\* or rejected request has no payout.
C1_PayoutOnlyWhenApprovedAtMostOnce ==
    \A r \in Requests :
        /\ payouts[r] <= 1
        /\ payouts[r] > 0 => passed[r] /\ Approved(r)

\* An approved request has ended with its one payout while a declined one
\* has ended with none.
C1_Witness ==
    \E r, q \in Requests :
        /\ Done(r) /\ Approved(r) /\ payouts[r] = 1
        /\ Done(q) /\ Declined(q) /\ payouts[q] = 0

\* C2: a validated request that was approved and whose payout failed is
\* answered approved, code 05, with a null blockchain_hash: never 51, never
\* declined.
C2_SettlementFailureIsolation ==
    \A r \in Requests :
        (Done(r) /\ passed[r] /\ Approved(r)
                 /\ payout_result[r].status = "failure")
            => /\ reply[r].code = 200
               /\ reply[r].json.status = "approved"
               /\ reply[r].json.response_code = "05"
               /\ HashOf(reply[r].json) = PyNone

C2_Witness ==
    \E r \in Requests :
        /\ Done(r) /\ passed[r] /\ Approved(r)
        /\ payout_result[r].status = "failure"
        /\ reply[r].json.response_code = "05"

\* C3: every dict process_payment_logic returns has a response_code among
\* 00, 05, 51, 99; its status is approved exactly for 00 and 05 and declined
\* exactly for 51 and 99; its blockchain_hash is non-null exactly for 00; and
\* approval with a successful payout gives 00.
C3_ClosedResponseCodes ==
    \A r \in Requests :
        (Done(r) /\ reply[r].code = 200) =>
            LET json == reply[r].json
            IN /\ json.response_code \in {"00", "05", "51", "99"}
               /\ json.status \in {"approved", "declined"}
               /\ json.status = "approved" <=> json.response_code \in {"00", "05"}
               /\ json.status = "declined" <=> json.response_code \in {"51", "99"}
               /\ HashOf(json) # PyNone <=> json.response_code = "00"
               /\ (Approved(r) /\ payout_result[r].status = "success")
                    => json.response_code = "00"

\* All four codes have been returned, by as many requests.
C3_Witness ==
    \E r \in Requests :
        /\ Done(r) /\ reply[r].code = 200
        /\ reply[r].json.response_code = "00"
        /\ HashOf(reply[r].json) # PyNone
        /\ \E q \in Requests :
            /\ Done(q) /\ reply[q].code = 200
            /\ reply[q].json.response_code \in {"51", "99"}

\* C4: a request that lacks amount, currency, cardNumber or protocol never
\* has a decision, a payout or a ledger document, and is answered declined
\* with code 99.
C4_MissingFieldRejected ==
    \A r \in Requests :
        MissingField(body[r]) =>
            /\ ~passed[r]
            /\ is_approved[r] = PyNone
            /\ payouts[r] = 0
            /\ handed[r] = NoDocument
            /\ logged[r] = "none"
            /\ Done(r) => /\ reply[r].code = 200
                          /\ reply[r].json.status = "declined"
                          /\ reply[r].json.response_code = "99"

\* A request without cardNumber and one without protocol have been answered.
C4_Witness ==
    \E r, q \in Requests :
        /\ Done(r) /\ body[r].t = "dict" /\ body[r].v.cardNumber = Absent
        /\ Done(q) /\ body[q].t = "dict" /\ body[q].v.protocol = Absent
        /\ reply[r].json.response_code = "99"

\* What the reply of a validated request must be by the response-code table,
\* given the decision and the payout's status alone.
ExpectedCode(approved, payoutStatus) ==
    IF ~approved THEN "51" ELSE IF payoutStatus = "success" THEN "00" ELSE "05"

\* C5: the reply of a validated request is the one its decision and payout
\* result determine, whether the ledger add stored the document, raised, or
\* was skipped for want of db; two requests with the same payload, decision
\* and payout status get the same reply (but for the hash, which is each
\* payout's own) whatever became of their ledger adds.
C5_LedgerFailureIsolation ==
    /\ \A r \in Requests :
        (Done(r) /\ passed[r]) =>
            /\ logged[r] \in {"stored", "failed", "skipped"}
            /\ reply[r].code = 200
            /\ reply[r].json.response_code =
                    ExpectedCode(is_approved[r].v, payout_result[r].status)
            /\ HashOf(reply[r].json) = payout_result[r].hash
    /\ \A r, q \in Requests :
        (/\ Done(r) /\ passed[r] /\ Done(q) /\ passed[q]
         /\ body[r] = body[q]
         /\ is_approved[r] = is_approved[q]
         /\ payout_result[r].status = payout_result[q].status)
            => /\ reply[r].code = reply[q].code
               /\ reply[r].json.status = reply[q].json.status
               /\ reply[r].json.response_code = reply[q].json.response_code
               /\ reply[r].json.message = reply[q].json.message

\* Two requests alike in payload, decision and payout status have ended, the
\* ledger add of one stored and of the other raised.
C5_Witness ==
    \E r, q \in Requests :
        /\ Done(r) /\ passed[r] /\ Done(q) /\ passed[q]
        /\ body[r] = body[q]
        /\ is_approved[r] = is_approved[q]
        /\ payout_result[r].status = payout_result[q].status
        /\ logged[r] = "stored" /\ logged[q] = "failed"
        /\ reply[r].json.response_code = reply[q].json.response_code

\* The ledger add was skipped for want of db, and the reply was given.
C5_WitnessUnavailable ==
    \E r \in Requests :
        Done(r) /\ passed[r] /\ ~db /\ logged[r] = "skipped"

Terminal(r) ==
    /\ Done(r)
    /\ reply[r].code = 200
    /\ reply[r].json.response_code \in {"00", "05", "51"}

\* C6: a request that passed validation is eventually answered with one of
\* the outcomes 00, 05, 51, and no request that passed validation is ever
\* answered with anything else.
C6_ValidatedReachesTerminalOutcome ==
    /\ \A r \in Requests : passed[r] ~> Terminal(r)
    /\ [](\A r \in Requests : (passed[r] /\ Done(r)) => Terminal(r))

\* Two validated requests have been answered: an approval whose payout
\* failed (05) and a policy decline (51).
C6_Witness ==
    \E r, q \in Requests :
        /\ passed[r] /\ Terminal(r) /\ reply[r].json.response_code = "05"
        /\ passed[q] /\ Terminal(q) /\ reply[q].json.response_code = "51"

\* C7: the cardNumber of every document stored in the ledger differs from
\* the cardNumber of the request it records (it is a masked form of it).
C7_StoredCardNumberIsMasked ==
    \A r \in Requests :
        logged[r] = "stored" =>
            /\ handed[r].cardNumber # Get(body[r].v, "cardNumber")
            /\ \A u \in UserIds : \A i \in 1..Len(ledger[u]) :
                ledger[u][i].cardNumber # Get(body[r].v, "cardNumber")

(***************************************************************************)
(* Properties of the codec.                                                *)
(***************************************************************************)
\* The text "MTI:<type>|c1:v1,...,cn:vn" of the wire grammar.
RECURSIVE FieldsText(_)
FieldsText(f) ==
    IF f = <<>> THEN <<>>
    ELSE f[1][1] \o <<":">> \o f[1][2]
            \o (IF Len(f) = 1 THEN <<>> ELSE <<",">> \o FieldsText(Tail(f)))
WireText(ty, f) == <<"M", "T", "I", ":">> \o ty \o <<"|">> \o FieldsText(f)

\* The well-formed messages: a type and field strings free of delimiters.
WellFormed ==
    {[mti |-> ty, data_elements |-> f, text |-> WireText(ty, f)] :
        ty \in Types, f \in FieldMaps}

\* C8: for a well-formed message with a non-empty type (its field map may be
\* empty), unpack of what pack returned gives back the type and the fields.
C8_RoundTrip ==
    (cpc = "unpacked" /\ via = "text" /\ packArgs.mti # <<>>)
        => /\ msg.mti = Str(packArgs.mti)
           /\ msg.data_elements = packArgs.data_elements

\* The texts the wire grammar allows: a non-empty type, at least one field.
GrammarTexts == {w.text : w \in {x \in WellFormed :
                                    x.mti # <<>> /\ x.data_elements # <<>>}}

\* C9: unpack of a structurally invalid input leaves mti = 'ERROR' and no
\* data elements.
C9_InvalidInputGivesEmptyError ==
    (cpc = "decoded" /\ Truthy(input)
                     /\ (input.t # "str" \/ input.v \notin GrammarTexts))
        => /\ msg.mti = Str(ERROR)
           /\ msg.data_elements = <<>>

\* C10: unpack of "MTI:<t>|c1:v1,...,cn:vn", n >= 1, with distinct codes
\* gives the type t and exactly the pairs ci -> vi in input order.
C10_WellFormedDecodes ==
    \A w \in WellFormed :
        (cpc = "decoded" /\ w.data_elements # <<>> /\ input = Str(w.text))
            => /\ msg.mti = Str(w.mti)
               /\ msg.data_elements = w.data_elements

\* "MTI:0200|39:00,02:4111111111111111" has been decoded.
C10_Witness ==
    /\ cpc = "decoded"
    /\ input = Str(<<"M", "T", "I", ":", "0", "2", "0", "0", "|",
                     "3", "9", ":", "0", "0", ",", "0", "2", ":">> \o PAN)
    /\ msg.mti = Str(<<"0", "2", "0", "0">>)
    /\ msg.data_elements = << <<<<"3", "9">>, <<"0", "0">>>>,
                              <<<<"0", "2">>, PAN>> >>


\* The required fields in the order of validation.
FieldOrder == <<"amount", "currency", "cardNumber", "protocol">>
\* The first required field, in that order, that the payload lacks.
FirstOffending(data) ==
    FieldOrder[CHOOSE i \in 1..Len(FieldOrder) :
                   /\ ~Truthy(Get(data, FieldOrder[i]))
                   /\ \A j \in 1..(i - 1) : Truthy(Get(data, FieldOrder[j]))]
\* The reply names a field when one of its values is the field's name.
Names(json, field) == \E key \in DOMAIN json : json[key] = field

\* C11: the rejection of a request that fails validation names the first
\* offending field in the order amount, currency, cardNumber, protocol (a
\* request without amount and currency is told amount).
C11_RejectionNamesFirstOffendingField ==
    \A r \in Requests :
        (Done(r) /\ body[r].t = "dict" /\ ~AllPresent(body[r].v))
            => Names(reply[r].json, FirstOffending(body[r].v))


\* The request's own answer from process_payment_logic has been returned.
Answered(r) == Done(r) /\ passed[r]
\* log_transaction_to_firestore was called and has returned.
LogReturned(r) == logged[r] # "none"

\* C12: in one request the steps come in the order validate, decide, pay out
\* (only if approved), ledger add, reply: no decision without validation, no
\* payout without the decision, no ledger add before an approved request's
\* payout has returned, no reply before the ledger add has returned; each
\* step moves the request to the next one only; and the document handed to
\* the ledger has the reply's status, response_code and blockchain_hash.
C12_StepsInOrder ==
    /\ [](\A r \in Requests :
            /\ is_approved[r] # PyNone => passed[r]
            /\ payouts[r] > 0 => Approved(r)
            /\ payout_result[r] # NoPayout => payouts[r] > 0
            /\ LogReturned(r) =>
                /\ is_approved[r] # PyNone
                /\ Approved(r) => payout_result[r] # NoPayout
            /\ handed[r] # NoDocument => LogReturned(r)
            /\ Answered(r) => LogReturned(r)
            /\ (Answered(r) /\ handed[r] # NoDocument) =>
                /\ handed[r].status = reply[r].json.status
                /\ handed[r].response_code = reply[r].json.response_code
                /\ handed[r].blockchain_hash = HashOf(reply[r].json))
    /\ [][\A r \in Requests :
            pc'[r] # pc[r] =>
                <<pc[r], pc'[r]>> \in
                    {<<"idle", "process">>, <<"idle", "done">>,
                     <<"process", "decide">>, <<"process", "done">>,
                     <<"decide", "payout">>, <<"decide", "log">>,
                     <<"payout", "log">>, <<"log", "respond">>,
                     <<"respond", "done">>}]_vars

\* An approved request with a successful payout has been stored and answered.
C12_Witness ==
    \E r \in Requests :
        /\ Answered(r) /\ Approved(r)
        /\ payout_result[r].status = "success"
        /\ logged[r] = "stored"
        /\ handed[r].blockchain_hash = HashOf(reply[r].json)
        /\ reply[r].json.response_code = "00"


\* user_id of line 98
UserOf(r) == GetOr(body[r].v, "userId", DefaultUser)
\* The requests whose add stored their document.
Stored == {r \in Requests : logged[r] = "stored"}
\* How many documents equal to doc the transactions of user u hold.
Copies(u, doc) == Cardinality({i \in 1..Len(ledger[u]) : ledger[u][i] = doc})
RECURSIVE SumLen(_)
SumLen(users) ==
    IF users = {} THEN 0
    ELSE LET u == CHOOSE x \in users : TRUE
         IN Len(ledger[u]) + SumLen(users \ {u})

C14_FailureMappedToDeclined99 ==
    /\ [](\A r \in Requests :
            /\ Done(r) => reply[r].code \in {200, 401, 500}
            /\ (Done(r) /\ reply[r].code = 500) =>
                    /\ reply[r] = InternalServerError
                    /\ reply[r].json.status = "declined"
                    /\ reply[r].json.response_code = "99"
            /\ (Done(r) /\ body[r].t # "dict") =>
                    /\ reply[r] \in {NotAuthenticated, InternalServerError}
                    /\ ~passed[r] /\ payouts[r] = 0 /\ handed[r] = NoDocument)
    /\ [][\A r \in Requests :
            /\ (pc[r] = "idle" /\ pc'[r] = "done" /\ "logged_in" \in session)
                    => reply'[r] = InternalServerError
            /\ (pc[r] = "process" /\ pc'[r] # pc[r] /\ body[r].t # "dict")
                    => (pc'[r] = "done" /\ reply'[r] = InternalServerError)]_vars

\* A logged-in caller posted a body that could not be read or is no dict (JSON
\* null): the handler answered 500.
C14_Witness ==
    \E r \in Requests :
        /\ Done(r)
        /\ body[r] = PyNone
        /\ reply[r] = InternalServerError


\* Field values that hold a delimiter: a ',' followed by further text, or a
\* '|' followed by further text.
DelimitedValues ==
    {v \o <<Comma>> \o c : v \in Values, c \in Codes}
        \cup {v \o tl : v \in Values, tl \in Tails \ {<<>>}}
IsProperPrefix(p, v) == Len(p) < Len(v) /\ SubSeq(v, 1, Len(p)) = p

\* C15: unpack of "MTI:<t>|c:v", where the value v holds a ',' or a '|', does
\* not end with a field map in which c has a truncated prefix of v: the
\* message is ERROR and no truncated value is stored.
C15_DelimiterInValueNotTruncated ==
    \A ty \in Types, c \in Codes, v \in DelimitedValues :
        (cpc = "decoded"
            /\ input = Str(MTI \o <<Colon>> \o ty \o <<Pipe>>
                               \o c \o <<Colon>> \o v))
            => /\ msg.mti = Str(ERROR)
               /\ \A i \in 1..Len(msg.data_elements) :
                    ~(/\ msg.data_elements[i][1] = c
                      /\ IsProperPrefix(msg.data_elements[i][2], v))


\* Values that hold a ':' themselves.
ColonValues == {<<"0", Colon, "0">>}

\* C16: unpack splits an element on its first ':' only: "MTI:<t>|c:v" with a
\* value v that holds a ':' decodes to the type t and the one field c -> v.
C16_SplitOnFirstColonOnly ==
    \A ty \in Types \ {<<>>}, c \in Codes, v \in ColonValues :
        (cpc = "decoded"
            /\ input = Str(MTI \o <<Colon>> \o ty \o <<Pipe>>
                               \o c \o <<Colon>> \o v))
            => /\ msg.mti = Str(ty)
               /\ msg.data_elements = << <<c, v>> >>


\* The amount of the request is a number that is not positive.
NotPositiveAmount(r) ==
    /\ body[r].t = "dict"
    /\ Get(body[r].v, "amount").t = "int"
    /\ Get(body[r].v, "amount").v <= 0

\* C17: a request whose amount is zero or negative is rejected by validation
\* with response_code "99" and reaches neither the decision nor the payout.
C17_NonPositiveAmountRejected ==
    \A r \in Requests :
        NotPositiveAmount(r) =>
            /\ ~passed[r]
            /\ is_approved[r] = PyNone
            /\ payouts[r] = 0
            /\ Done(r) => reply[r] = [code |-> 200, json |-> Rejected]


\* The request r is at its add and u is the identity it runs under.
AddsTo(r, u) == pc[r] = "log" /\ pc'[r] = "respond" /\ UserOf(r) = u

\* C18: the ledger is append-only and scoped per identity.  In every step
\* each user's transaction list stays as it is or grows by one document at
\* its end, and it grows only in the add of a request whose userId is that
\* user, or of a request without userId for 'virtual-terminal-1'; the
\* document is the one built from that request.
C18_AppendOnlyPerIdentity ==
    [][\A u \in UserIds :
        \/ ledger'[u] = ledger[u]
        \/ \E r \in Requests :
            /\ AddsTo(r, u)
            /\ body[r].v.userId \in {Absent, u}
            /\ body[r].v.userId = Absent => u = DefaultUser
            /\ ledger'[u] = Append(ledger[u], handed'[r])
            /\ handed'[r].cardNumber = Get(body[r].v, "cardNumber")]_vars

\* The identity u1 and the default identity each hold the document of their
\* own request.
C18_Witness ==
    \E r, q \in Requests :
        /\ body[r].t = "dict" /\ body[r].v.userId = Text("u1")
        /\ body[q].t = "dict" /\ body[q].v.userId = Absent
        /\ ledger[Text("u1")] = <<handed[r]>>
        /\ ledger[DefaultUser] = <<handed[q]>>


\* What the pipeline holds for the request r.
Own(r) ==
    <<pc[r], body[r], passed[r], is_approved[r], payout_result[r], payouts[r],
      handed[r], logged[r], reply[r]>>
\* The result of r, from its own decision and its own payout.
OwnResult(r) == Outcome(is_approved[r].v, payout_result[r])
\* The stored requests of the user u.
StoredOf(u) == {r \in Stored : UserOf(r) = u}

\* Reply, payout and document of every request come from its own data,
\* decision and payout result.
OwnDataOnly ==
    \A r \in Requests :
        /\ payout_result[r].hash \in {PyNone, FreshHash(r)}
        /\ handed[r] # NoDocument => handed[r] = Document(body[r].v, OwnResult(r))
        /\ Answered(r) => reply[r] = [code |-> 200, json |-> OwnResult(r)]
\* The ledger of every user holds the documents of the stored requests of
\* that user, each once, and nothing else.
LedgerHoldsStored ==
    \A u \in UserIds :
        /\ Len(ledger[u]) = Cardinality(StoredOf(u))
        /\ \A i \in 1..Len(ledger[u]) : \E r \in StoredOf(u) : ledger[u][i] = handed[r]
        /\ \A r \in StoredOf(u) : \E i \in 1..Len(ledger[u]) : ledger[u][i] = handed[r]
\* A step of one request leaves what the pipeline holds for the others alone.
StepsOwnOnly ==
    \A r, q \in Requests : (q # r /\ Own(r)' # Own(r)) => Own(q)' = Own(q)

\* C19 as claimed: independence, and when all requests are finished the
\* ledger holds one record for every request that passed validation.
C19_IndependentAndAllRecorded ==
    /\ OwnDataOnly
    /\ LedgerHoldsStored
    /\ (\A r \in Requests : Done(r)) =>
            \A u \in UserIds :
                Len(ledger[u]) =
                    Cardinality({r \in Requests : passed[r] /\ UserOf(r) = u})

\* C19, amended: under every interleaving of the requests, reply and ledger
\* document of each request depend only on its own data, decision and payout
\* result, no step of one request changes anything held for another, and the
\* ledger holds one record for every request whose add succeeded, none lost
\* or mixed; a validated request whose add failed or was skipped has none.
C19_IndependentRequests ==
    /\ [](OwnDataOnly /\ LedgerHoldsStored)
    /\ [][StepsOwnOnly]_vars

\* Two requests of the same user, interleaved, ended with different outcomes
\* (one approved and paid out, one declined) and one record each.
C19_Witness ==
    \E r, q \in Requests :
        /\ Answered(r) /\ Answered(q)
        /\ logged[r] = "stored" /\ logged[q] = "stored"
        /\ UserOf(r) = UserOf(q)
        /\ Len(ledger[UserOf(r)]) = 2
        /\ reply[r].json.response_code = "00"
        /\ reply[q].json.response_code = "51"
        /\ handed[r].blockchain_hash = FreshHash(r)


LoggedIn == "logged_in" \in session
\* No decision, payout or ledger document exists for the request r.
Untouched(r) ==
    /\ ~passed[r]
    /\ is_approved[r] = PyNone
    /\ payout_result[r] = NoPayout /\ payouts[r] = 0
    /\ handed[r] = NoDocument /\ logged[r] = "none"

\* C20: session gating.  Without 'logged_in' in the session every protected
\* page redirects to the login page, and a call of /api/process_transaction
\* ends at once with the 401 'User not authenticated' reply and changes no
\* decision, payout or ledger; a request answered 401 has none of them.  The
\* session becomes logged in only in a login POST with admin/password, and
\* /logout leaves it logged out.
C20_SessionGating ==
    /\ [](/\ ~LoggedIn =>
                /\ card_page = Redirect("login_page")
                /\ processing_page = Redirect("login_page")
                /\ success_page = Redirect("login_page")
                /\ rejected_page = Redirect("login_page")
          /\ \A r \in Requests :
                (Done(r) /\ reply[r] = NotAuthenticated) => Untouched(r))
    /\ [][\A r \in Requests :
            (~LoggedIn /\ pc[r] = "idle" /\ pc'[r] # "idle") =>
                /\ pc'[r] = "done"
                /\ reply'[r] = NotAuthenticated
                /\ UNCHANGED <<ledger, body, passed, is_approved,
                               payout_result, payouts, handed, logged>>]_vars
    /\ [][(~LoggedIn /\ LoggedIn') => login_page("admin", "password")]_vars
    /\ [][logout => ~LoggedIn']_vars

\* After a login, under which one request was processed and answered, the
\* session was logged out: the pages redirect and a further call of the API
\* was answered 401.
C20_Witness ==
    \E r, q \in Requests :
        /\ Answered(q)
        /\ session = {}
        /\ card_page = Redirect("login_page")
        /\ Done(r) /\ reply[r] = NotAuthenticated /\ Untouched(r)

====
